---- MODULE Spec2Model ----
(***************************************************************************)
(* Model of the job-queue and state-management layer of zeval-service:     *)
(* the SQLite store (documents, eval_tasks), the atomic-claim protocol of  *)
(* claim_next_pending_task, the worker loop, and the API handlers that     *)
(* create documents, create tasks and patch tasks.                         *)
(*                                                                         *)
(* Conventions.  An Optional[T] value is a tuple: <<>> is None / SQL NULL  *)
(* and <<v>> is the value v.  Table rows are records; the tables are       *)
(* sequences indexed by the AUTOINCREMENT id (rows are never deleted).     *)
(* Every store statement that commits is one step; reads whose result no   *)
(* other process can invalidate (existence of a row, immutable columns)    *)
(* are folded into the step that follows them.                             *)
(***************************************************************************)
EXTENDS Integers, Sequences, FiniteSets, TLC

VARIABLES documents, eval_tasks, files, clock, workers, uploads, creates, claimed, resp,
          patches

vars == <<documents, eval_tasks, files, clock, workers, uploads, creates, claimed, resp,
          patches>>

(***************************************************************************)
(* Bounds of the model.                                                    *)
(***************************************************************************)
MaxTasks == 2
MaxClock == 1
NumWorkers == 2
NumUploaders == 2
FifoTasks == 3
FifoClock == 2
MaxPatches == 2

Workers == 1..NumWorkers
Uploaders == 1..NumUploaders

None == <<>>
Some(v) == <<v>>
IsSome(o) == o # <<>>
Get(o) == o[1]

(***************************************************************************)
(* models/task.py: TaskStatus                                              *)
(***************************************************************************)
PENDING == "pending"
RUNNING == "running"
COMPLETED == "completed"
FAILED == "failed"
TaskStatus == {PENDING, RUNNING, COMPLETED, FAILED}
Terminal == {COMPLETED, FAILED}

(***************************************************************************)
(* Stored representations.  datetime.isoformat() / fromisoformat() and     *)
(* json.dumps() / json.loads() convert between the Python value and the    *)
(* TEXT that the row holds.                                                *)
(***************************************************************************)
IsoFormat(t) == <<"iso", t>>
CurrentTimestamp(t) == <<"sql", t>>
FromIsoFormat(s) == s[2]
JsonDumps(m) == <<"json", m>>
JsonLoads(s) == s[2]

(***************************************************************************)
(* The row that INSERT INTO eval_tasks creates: the six supplied columns,  *)
(* progress DEFAULT 0, created_at DEFAULT CURRENT_TIMESTAMP, the rest NULL.*)
(***************************************************************************)
NewTaskRow(id, document_id, start_page, end_page, llm_uri, num_test_cases, ts) ==
    [ id |-> id,
      document_id |-> document_id,
      start_page |-> start_page,
      end_page |-> end_page,
      llm_uri |-> llm_uri,
      num_test_cases |-> num_test_cases,
      status |-> PENDING,
      progress |-> 0,
      created_at |-> CurrentTimestamp(ts),
      started_at |-> None,
      completed_at |-> None,
      result_path |-> None,
      dataset_path |-> None,
      avg_score |-> None,
      metrics_summary |-> None,
      error |-> None ]

TaskIds == 1..Len(eval_tasks)
DocIds == 1..Len(documents)

(***************************************************************************)
(* database/operations.py: claim_next_pending_task, the SELECT.            *)
(* WHERE status = 'pending' ORDER BY created_at ASC LIMIT 1: the rows that *)
(* may come first.  SQL leaves the order of rows with equal created_at     *)
(* open, so every pending row with the least created_at is a candidate.    *)
(***************************************************************************)
PendingIds(tasks) == {i \in 1..Len(tasks) : tasks[i].status = PENDING}

\* The same SELECT without its WHERE clause: the oldest row of any status.
SelectOldestAnyStatus(tasks) ==
    {i \in 1..Len(tasks) :
        \A j \in 1..Len(tasks) : tasks[i].created_at[2] <= tasks[j].created_at[2]}

\* The same SELECT without its ORDER BY clause: any pending row may come first.
SelectAnyPending(tasks) == PendingIds(tasks)

SelectNextPending(tasks) ==
    {i \in PendingIds(tasks) :
        \A j \in PendingIds(tasks) : tasks[i].created_at[2] <= tasks[j].created_at[2]}

(***************************************************************************)
(* claim_next_pending_task, the UPDATE: SET status = 'running',            *)
(* started_at = now().isoformat(), progress = 0 WHERE id = ? (the WHERE    *)
(* clause names the id only).                                              *)
(***************************************************************************)
\* An UPDATE that also writes the default first page into start_page.
ClaimUpdateSetsPage(tasks, id, ts) ==
    [tasks EXCEPT ![id] = [@ EXCEPT !.status = RUNNING,
                                    !.started_at = Some(IsoFormat(ts)),
                                    !.progress = 0,
                                    !.start_page = Some(1)]]

\* The UPDATE without its WHERE id = ?: every pending row is set running.
ClaimUpdateNoWhere(tasks, id, ts) ==
    [i \in DOMAIN tasks |->
        IF i = id \/ tasks[i].status = PENDING
        THEN [tasks[i] EXCEPT !.status = RUNNING,
                              !.started_at = Some(IsoFormat(ts)),
                              !.progress = 0]
        ELSE tasks[i]]

ClaimUpdate(tasks, id, ts) ==
    [tasks EXCEPT ![id] = [@ EXCEPT !.status = RUNNING,
                                    !.started_at = Some(IsoFormat(ts)),
                                    !.progress = 0]]

(***************************************************************************)
(* claim_next_pending_task, the except branch: conn.rollback() discards    *)
(* the uncommitted UPDATE, so the table is the one before the statement.   *)
(***************************************************************************)
\* The except branch without conn.rollback(): the UPDATE stays.
ClaimNoRollback(before, after) == after

ClaimRollback(before, after) == before

(***************************************************************************)
(* _row_to_task: the EvalTask object built from a sqlite3.Row.             *)
(***************************************************************************)
RowToTask(row) ==
    [row EXCEPT !.created_at = FromIsoFormat(@),
                !.started_at = IF IsSome(@) THEN Some(FromIsoFormat(Get(@))) ELSE None,
                !.completed_at = IF IsSome(@) THEN Some(FromIsoFormat(Get(@))) ELSE None,
                !.metrics_summary = IF IsSome(@) THEN Some(JsonLoads(Get(@))) ELSE None]

(***************************************************************************)
(* claim_next_pending_task, the returned object: the row as it was READ,   *)
(* with status, started_at (a second datetime.now()) and progress set.     *)
(***************************************************************************)
ClaimedTask(row, ts) ==
    [RowToTask(row) EXCEPT !.status = RUNNING, !.started_at = Some(ts), !.progress = 0]

(***************************************************************************)
(* get_document_by_id: None when no row has that id.                       *)
(***************************************************************************)
\* The same SELECT without its WHERE clause: the first row, whatever the id.
GetFirstDocument(docs, id) == IF Len(docs) > 0 THEN Some(docs[1]) ELSE None

GetDocumentById(docs, id) == IF id \in 1..Len(docs) THEN Some(docs[id]) ELSE None

(***************************************************************************)
(* get_task_by_id                                                          *)
(***************************************************************************)
GetTaskById(tasks, id) == IF id \in 1..Len(tasks) THEN Some(RowToTask(tasks[id])) ELSE None

(***************************************************************************)
(* get_all_tasks: SELECT * FROM eval_tasks WHERE 1=1 [AND document_id = ?] *)
(* [AND status = ?] ORDER BY created_at DESC LIMIT ?.  SQL leaves the      *)
(* order of rows with equal created_at open, so the operator is the set of *)
(* the lists of row ids the statement may return.                          *)
(***************************************************************************)
MatchingIds(tasks, document_id, status) ==
    {i \in 1..Len(tasks) :
        /\ document_id = None \/ tasks[i].document_id = Get(document_id)
        /\ status = None \/ tasks[i].status = Get(status)}

RowCount(n, limit) == IF n < limit THEN n ELSE limit

GetAllTasks(tasks, document_id, status, limit) ==
    LET m == MatchingIds(tasks, document_id, status)
        n == RowCount(Cardinality(m), limit)
    IN  {s \in [1..n -> m] :
            /\ \A j, k \in 1..n : j < k =>
                  (s[j] # s[k] /\ tasks[s[j]].created_at[2] >= tasks[s[k]].created_at[2])
            /\ \A i \in m : (\A k \in 1..n : s[k] # i) =>
                  \A k \in 1..n : tasks[s[k]].created_at[2] >= tasks[i].created_at[2]}

\* The listing without its status filter.
GetTasksAnyStatus(tasks, limit) == GetAllTasks(tasks, None, None, limit)

\* get_pending_tasks: get_all_tasks(status=TaskStatus.PENDING, limit=limit)
GetPendingTasks(tasks, limit) == GetAllTasks(tasks, None, Some(PENDING), limit)

\* EvalTask.to_dict: the datetimes as isoformat() strings.
ToDict(task) ==
    [task EXCEPT !.created_at = IsoFormat(@),
                 !.started_at = IF IsSome(@) THEN Some(IsoFormat(Get(@))) ELSE None,
                 !.completed_at = IF IsSome(@) THEN Some(IsoFormat(Get(@))) ELSE None]

(***************************************************************************)
(* update_task_status: the patch is a record of Optional values; only the  *)
(* columns whose argument is not None enter the SET list, each converted   *)
(* as the code converts it.  No SET list: no statement.  WHERE id = ? on   *)
(* an unknown id touches no row.                                           *)
(***************************************************************************)
PatchFields == {"status", "progress", "started_at", "completed_at", "result_path",
                "dataset_path", "avg_score", "metrics_summary", "error"}

NoPatch == [f \in PatchFields |-> None]

\* The SET list built with `if avg_score:` in place of `is not None`.
UpdateColumnsTruthy(patch) ==
    {f \in PatchFields : patch[f] # None /\ ~(f = "avg_score" /\ patch[f] = <<0>>)}

UpdateColumns(patch) == {f \in PatchFields : patch[f] # None}

UpdateParam(f, v) ==
    CASE f \in {"started_at", "completed_at"} -> Some(IsoFormat(v))
      [] f = "metrics_summary" -> Some(JsonDumps(v))
      [] f \in {"status", "progress"} -> v
      [] OTHER -> Some(v)

UpdateRow(row, patch) ==
    [f \in DOMAIN row |->
        IF f \in UpdateColumns(patch) THEN UpdateParam(f, Get(patch[f])) ELSE row[f]]

UpdateTaskStatus(tasks, id, patch) ==
    IF UpdateColumns(patch) = {} \/ id \notin 1..Len(tasks)
    THEN tasks
    ELSE [tasks EXCEPT ![id] = UpdateRow(@, patch)]

(***************************************************************************)
(* The documents row that INSERT INTO documents creates.                   *)
(***************************************************************************)
NewDocumentRow(id, filename, file_path, file_size, total_pages, file_hash, ts) ==
    [ id |-> id,
      filename |-> filename,
      file_path |-> file_path,
      file_size |-> file_size,
      total_pages |-> total_pages,
      file_hash |-> file_hash,
      uploaded_at |-> CurrentTimestamp(ts),
      eval_count |-> 0 ]

(***************************************************************************)
(* api/routers/tasks.py: create_task.  `x or default` takes the default    *)
(* for None and for 0.                                                     *)
(***************************************************************************)
PyOr(o, default) == IF o = None \/ Get(o) = 0 THEN default ELSE Get(o)

DefaultLlmUri == "openai/gpt-4o-mini"
DefaultNumTestCases == 50

\* The status code of the page-range validation (200: the range passes).
ValidatePageRange(start_page, end_page, total_pages) ==
    IF start_page # None \/ end_page # None
    THEN LET start == PyOr(start_page, 1)
             end == PyOr(end_page, total_pages)
         IN  IF start < 1 \/ end > total_pages THEN 400
             ELSE IF start > end THEN 400
             ELSE 200
    ELSE 200

\* The last response an API handler has sent.
NoResp == [op |-> "none", code |-> 0, id |-> 0]

\* database.create_task: the INSERT and its commit, then increment_eval_count
\* on a connection of its own.  With in_one_step the two commits are taken as
\* one step (nothing but create_task reads or writes eval_count); otherwise
\* the call stays in progress in `creates`, the set of create_task calls
\* that have committed their INSERT and not yet left increment_eval_count.
\* create_task without its call of increment_eval_count.
DbCreateTaskNoCount(document_id, start_page, end_page, llm_uri, num_test_cases, in_one_step) ==
    /\ eval_tasks' = Append(eval_tasks,
            NewTaskRow(Len(eval_tasks) + 1, document_id, start_page, end_page,
                       llm_uri, num_test_cases, clock))
    /\ UNCHANGED <<creates, documents>>

\* The call of create_task that has inserted row task_id for document_id.
CreateCall(task_id, document_id) == [task_id |-> task_id, document_id |-> document_id]

DbCreateTask(document_id, start_page, end_page, llm_uri, num_test_cases, in_one_step) ==
    /\ eval_tasks' = Append(eval_tasks,
            NewTaskRow(Len(eval_tasks) + 1, document_id, start_page, end_page,
                       llm_uri, num_test_cases, clock))
    /\ IF in_one_step
       THEN /\ documents' = [documents EXCEPT ![document_id].eval_count = @ + 1]
            /\ UNCHANGED creates
       ELSE /\ creates' = creates \cup {CreateCall(Len(eval_tasks) + 1, document_id)}
            /\ UNCHANGED documents

ApiCreateTask(document_id, start_page, end_page, in_one_step) ==
    LET document == GetDocumentById(documents, document_id) IN
    /\ IF document = None
       THEN /\ resp' = [op |-> "create_task", code |-> 404, id |-> 0]
            /\ UNCHANGED <<eval_tasks, creates, documents>>
       ELSE IF ValidatePageRange(start_page, end_page, Get(document).total_pages) # 200
       THEN /\ resp' = [op |-> "create_task", code |-> 400, id |-> 0]
            /\ UNCHANGED <<eval_tasks, creates, documents>>
       ELSE /\ DbCreateTask(document_id, start_page, end_page,
                            DefaultLlmUri, DefaultNumTestCases, in_one_step)
            /\ resp' = IF in_one_step
                       THEN [op |-> "create_task", code |-> 200, id |-> Len(eval_tasks) + 1]
                       ELSE resp
    /\ UNCHANGED <<files, clock, workers, uploads, claimed, patches>>

\* increment_eval_count: UPDATE documents SET eval_count = eval_count + 1
\* WHERE id = ? commits; create_task returns task_id and the handler answers
\* with it.
IncrementEvalCount(call) ==
    /\ call \in creates
    /\ documents' = [documents EXCEPT ![call.document_id].eval_count = @ + 1]
    /\ creates' = creates \ {call}
    /\ resp' = [op |-> "create_task", code |-> 200, id |-> call.task_id]
    /\ UNCHANGED <<eval_tasks, files, clock, workers, uploads, claimed, patches>>

\* increment_eval_count raises (the store is locked or fails): nothing
\* catches the exception in create_task or in the handler, so the request
\* ends with status 500 and no task_id; the INSERT is already committed.
IncrementStoreError(call) ==
    /\ call \in creates
    /\ creates' = creates \ {call}
    /\ resp' = [op |-> "create_task", code |-> 500, id |-> 0]
    /\ UNCHANGED <<documents, eval_tasks, files, clock, workers, uploads, claimed, patches>>

\* {**task.to_dict(), "document_filename": doc_map.get(document_id, "Unknown")}
TaskSummary(task, docs) ==
    LET d == ToDict(task)
        doc == GetDocumentById(docs, task.document_id)
    IN  [f \in DOMAIN d \cup {"document_filename"} |->
            IF f = "document_filename"
            THEN IF doc = None THEN "Unknown" ELSE Get(doc).filename
            ELSE d[f]]

\* api/routers/tasks.py: list_pending_tasks (GET /tasks/queue/pending).
ListPendingTasks(limit) ==
    /\ \E ids \in GetPendingTasks(eval_tasks, limit) :
          resp' = [op |-> "list_pending_tasks", code |-> 200, id |-> 0,
                   total |-> Len(ids),
                   tasks |-> [k \in 1..Len(ids) |->
                                 TaskSummary(RowToTask(eval_tasks[ids[k]]), documents)]]
    /\ UNCHANGED <<documents, eval_tasks, files, clock, workers, uploads, creates, claimed,
                   patches>>

\* api/routers/tasks.py: list_tasks (GET /tasks).  status is the query
\* string or None; `if status:` is false for None and for the empty
\* string, and TaskStatus(status) raises ValueError for any other string
\* that is not a member's value.
ApiListTasks(document_id, status, limit) ==
    /\ IF status # None /\ Get(status) # "" /\ Get(status) \notin TaskStatus
       THEN resp' = [op |-> "list_tasks", code |-> 400, id |-> 0]
       ELSE LET task_status == IF status # None /\ Get(status) # "" THEN status ELSE None
            IN  \E ids \in GetAllTasks(eval_tasks, document_id, task_status, limit) :
                   resp' = [op |-> "list_tasks", code |-> 200, id |-> 0,
                            total |-> Len(ids),
                            tasks |-> [k \in 1..Len(ids) |->
                                TaskSummary(RowToTask(eval_tasks[ids[k]]), documents)]]
    /\ UNCHANGED <<documents, eval_tasks, files, clock, workers, uploads, creates, claimed,
                   patches>>

\* Time passes.
Tick ==
    /\ clock' = clock + 1
    /\ UNCHANGED <<documents, eval_tasks, files, workers, uploads, creates, claimed, resp, patches>>

(***************************************************************************)
(* api/routers/tasks.py: update_task (PATCH /tasks/{task_id}).  A request  *)
(* string for a date is <<"iso", t>> when it parses, <<"">> when empty     *)
(* and any other tuple when malformed.  `if req.x:` is false for None and  *)
(* for the empty string.  The existence check reads a row that is never    *)
(* deleted, so the handler is one step.                                    *)
(***************************************************************************)
StatusGiven(req) == req.status # None /\ Get(req.status) # ""
DateGiven(o) == o # None /\ Get(o) # <<"">>
DateParses(o) == Get(o)[1] = "iso"

NoRequest ==
    [status |-> None, started_at |-> None, completed_at |-> None, result_path |-> None,
     dataset_path |-> None, avg_score |-> None, metrics_summary |-> None, error |-> None]

\* The keyword arguments the handler passes to update_task_status.
RequestPatch(req) ==
    [status |-> IF StatusGiven(req) THEN req.status ELSE None,
     progress |-> None,
     started_at |-> IF DateGiven(req.started_at)
                    THEN Some(FromIsoFormat(Get(req.started_at))) ELSE None,
     completed_at |-> IF DateGiven(req.completed_at)
                      THEN Some(FromIsoFormat(Get(req.completed_at))) ELSE None,
     result_path |-> req.result_path,
     dataset_path |-> req.dataset_path,
     avg_score |-> req.avg_score,
     metrics_summary |-> req.metrics_summary,
     error |-> req.error]

\* The handler without its step 1 (the lookup of the task).
UpdateTaskCodeNoLookup(tasks, task_id, req) ==
    IF StatusGiven(req) /\ Get(req.status) \notin TaskStatus THEN 400
    ELSE IF DateGiven(req.started_at) /\ ~DateParses(req.started_at) THEN 400
    ELSE IF DateGiven(req.completed_at) /\ ~DateParses(req.completed_at) THEN 400
    ELSE 200

UpdateTaskCode(tasks, task_id, req) ==
    IF GetTaskById(tasks, task_id) = None THEN 404
    ELSE IF StatusGiven(req) /\ Get(req.status) \notin TaskStatus THEN 400
    ELSE IF DateGiven(req.started_at) /\ ~DateParses(req.started_at) THEN 400
    ELSE IF DateGiven(req.completed_at) /\ ~DateParses(req.completed_at) THEN 400
    ELSE 200

ApiUpdateTask(task_id, req) ==
    LET code == UpdateTaskCode(eval_tasks, task_id, req) IN
    /\ eval_tasks' = IF code = 200
                     THEN UpdateTaskStatus(eval_tasks, task_id, RequestPatch(req))
                     ELSE eval_tasks
    /\ resp' = [op |-> "update_task", code |-> code, id |-> task_id]
    /\ patches' = patches + 1
    /\ UNCHANGED <<documents, files, clock, workers, uploads, creates, claimed>>

(***************************************************************************)
(* worker/worker.py: EvaluationWorker.  A worker is at one of              *)
(*   start        start(), before the call of _process_next_task (l.110)   *)
(*   loop         at the test of `while not self.should_stop` (l.113)      *)
(*   run_pending  in schedule.run_pending() (l.114), the test passed       *)
(*   claim_update in claim_next_pending_task, the SELECT done (l.262-267)  *)
(*   eval         in _execute_evaluation, the pipeline running (l.160)     *)
(*   completing   the pipeline has returned `outcome` (l.169)              *)
(*   failing      in the except branch of _execute_evaluation with the     *)
(*                message `outcome` (l.185)                                *)
(*   log_error    in the except branch of _process_next_task (l.152)       *)
(*   no_document  in _process_next_task, get_document_by_id returned None  *)
(*                (l.134-136)                                              *)
(*   stopped      start() has returned                                     *)
(*   crashed      the process has been killed                             *)
(* row is the sqlite3.Row the SELECT returned, task the EvalTask object    *)
(* that claim_next_pending_task returned, outcome the EvalResult or the    *)
(* str(e) of the pipeline or of the update that raised.  signalled_at is   *)
(* the position the first signal interrupted (the handler's `frame`) and   *)
(* logged the last message written by logger.exception at l.153.           *)
(***************************************************************************)
NewWorker ==
    [pc |-> "start", should_stop |-> FALSE, row |-> None, task |-> None, outcome |-> None,
     signalled_at |-> None, logged |-> None]

\* A handler that raises, as the default SIGINT handler does: start() is left.
SignalHandlerRaises(w) ==
    /\ workers[w].pc # "stopped"
    /\ ~workers[w].should_stop
    /\ workers' = [workers EXCEPT ![w].should_stop = TRUE,
                               ![w].signalled_at = Some(workers[w].pc),
                               ![w].pc = "stopped"]
    /\ UNCHANGED <<documents, eval_tasks, files, clock, uploads, creates, claimed, resp, patches>>

\* _signal_handler: SIGINT or SIGTERM, at any point after __init__.
SignalHandler(w) ==
    /\ workers[w].pc # "stopped"
    /\ ~workers[w].should_stop
    /\ workers' = [workers EXCEPT ![w].should_stop = TRUE,
                               ![w].signalled_at = Some(workers[w].pc)]
    /\ UNCHANGED <<documents, eval_tasks, files, clock, uploads, creates, claimed, resp, patches>>

\* while not self.should_stop: the loop is left.
LoopExit(w) ==
    /\ workers[w].pc = "loop"
    /\ workers[w].should_stop
    /\ workers' = [workers EXCEPT ![w].pc = "stopped"]
    /\ UNCHANGED <<documents, eval_tasks, files, clock, uploads, creates, claimed, resp, patches>>

\* A loop that does not test the flag (while True).
LoopEnterAlways(w) ==
    /\ workers[w].pc = "loop"
    /\ workers' = [workers EXCEPT ![w].pc = "run_pending"]
    /\ UNCHANGED <<documents, eval_tasks, files, clock, uploads, creates, claimed, resp, patches>>

\* while not self.should_stop: the body is entered.
LoopEnter(w) ==
    /\ workers[w].pc = "loop"
    /\ ~workers[w].should_stop
    /\ workers' = [workers EXCEPT ![w].pc = "run_pending"]
    /\ UNCHANGED <<documents, eval_tasks, files, clock, uploads, creates, claimed, resp, patches>>

\* schedule.run_pending() finds the job not yet due; time.sleep(1).
RunPendingNotDue(w) ==
    /\ workers[w].pc = "run_pending"
    /\ workers' = [workers EXCEPT ![w].pc = "loop"]
    /\ UNCHANGED <<documents, eval_tasks, files, clock, uploads, creates, claimed, resp, patches>>

\* _process_next_task -> claim_next_pending_task: the SELECT finds no row,
\* None is returned and the worker goes back to its loop.
ClaimSelectNone(w) ==
    /\ workers[w].pc \in {"start", "run_pending"}
    /\ SelectNextPending(eval_tasks) = {}
    /\ workers' = [workers EXCEPT ![w].pc = "loop"]
    /\ UNCHANGED <<documents, eval_tasks, files, clock, uploads, creates, claimed, resp, patches>>

\* claim_next_pending_task: the SELECT raises (the store is locked or
\* fails); nothing was written; rollback, re-raise into _process_next_task.
ClaimSelectError(w) ==
    /\ workers[w].pc \in {"start", "run_pending"}
    /\ workers' = [workers EXCEPT ![w].pc = "log_error"]
    /\ UNCHANGED <<documents, eval_tasks, files, clock, uploads, creates, claimed, resp, patches>>

\* claim_next_pending_task: the SELECT returns a row.  It runs outside any
\* transaction (sqlite3 opens one only before the UPDATE), so it takes no
\* lock that outlives the statement.
ClaimSelectRow(w) ==
    /\ workers[w].pc \in {"start", "run_pending"}
    /\ \E i \in SelectNextPending(eval_tasks) :
          workers' = [workers EXCEPT ![w].pc = "claim_update",
                                     ![w].row = Some(eval_tasks[i])]
    /\ UNCHANGED <<documents, eval_tasks, files, clock, uploads, creates, claimed, resp, patches>>

\* A branch that never finds the document missing.
DocumentNeverMissing(docs, document_id) == FALSE

\* _process_next_task: document = get_document_by_id(...); `if not document`.
DocumentMissing(docs, document_id) == GetDocumentById(docs, document_id) = None

\* claim_next_pending_task: UPDATE and commit succeed; the task object is
\* built with a second datetime.now(), which reads now2 (the same instant or
\* a later one), and returned; _process_next_task then resolves the document.
ClaimCommit(w, now2) ==
    /\ workers[w].pc = "claim_update"
    /\ LET row == Get(workers[w].row)
           task == ClaimedTask(row, now2)
       IN  /\ eval_tasks' = ClaimUpdate(eval_tasks, row.id, clock)
           /\ claimed' = Append(claimed, row.id)
           /\ workers' = [workers EXCEPT
                 ![w].pc = IF DocumentMissing(documents, task.document_id)
                           THEN "no_document" ELSE "eval",
                 ![w].row = None,
                 ![w].task = Some(task)]
    /\ UNCHANGED <<documents, files, clock, uploads, creates, resp, patches>>

\* claim_next_pending_task: the UPDATE or the commit raises (the store is
\* locked or fails); rollback, re-raise into _process_next_task.
ClaimStoreError(w) ==
    /\ workers[w].pc = "claim_update"
    /\ eval_tasks' = ClaimRollback(eval_tasks,
                                   ClaimUpdate(eval_tasks, Get(workers[w].row).id, clock))
    /\ workers' = [workers EXCEPT ![w].pc = "log_error", ![w].row = None]
    /\ UNCHANGED <<documents, files, clock, uploads, creates, claimed, resp, patches>>

\* str(e) of an exception of the pipeline, and of one of the store.
PipelineErrors == {"pipeline error"}
StoreErrorMsg == "database is locked"

\* An except branch that logs and re-raises: the error leaves start().
LogErrorReraises(w) ==
    /\ workers[w].pc = "log_error"
    /\ workers' = [workers EXCEPT ![w].pc = "stopped", ![w].task = None, ![w].outcome = None,
                               ![w].logged = Some(StoreErrorMsg)]
    /\ UNCHANGED <<documents, eval_tasks, files, clock, uploads, creates, claimed, resp, patches>>

\* _process_next_task, except Exception: the error is logged and the call
\* returns to the loop.
LogError(w) ==
    /\ workers[w].pc = "log_error"
    /\ workers' = [workers EXCEPT ![w].pc = "loop", ![w].task = None, ![w].outcome = None,
                               ![w].logged = Some(StoreErrorMsg)]
    /\ UNCHANGED <<documents, eval_tasks, files, clock, uploads, creates, claimed, resp, patches>>

(***************************************************************************)
(* _execute_evaluation                                                     *)
(***************************************************************************)
\* An EvalResult: the paths are pathlib.Path objects, avg_score is in
\* hundredths, metrics_summary stands for the dict of metric averages.
EvalResults ==
    { [report_excel_path |-> <<"Path", "report.xlsx">>,
       dataset_path |-> <<"Path", "dataset.json">>,
       avg_score |-> 87, metrics_summary |-> "faithfulness=90,relevance=84"] }

\* str(path)
PathStr(path) == path[2]

\* The completing update without its progress argument.
CompletedPatchNoProgress(result, ts) ==
    [NoPatch EXCEPT !.status = Some(COMPLETED),
                    !.completed_at = Some(ts),
                    !.result_path = Some(PathStr(result.report_excel_path)),
                    !.dataset_path = Some(PathStr(result.dataset_path)),
                    !.avg_score = Some(result.avg_score),
                    !.metrics_summary = Some(result.metrics_summary)]

CompletedPatch(result, ts) ==
    [NoPatch EXCEPT !.status = Some(COMPLETED),
                    !.progress = Some(100),
                    !.completed_at = Some(ts),
                    !.result_path = Some(PathStr(result.report_excel_path)),
                    !.dataset_path = Some(PathStr(result.dataset_path)),
                    !.avg_score = Some(result.avg_score),
                    !.metrics_summary = Some(result.metrics_summary)]

\* The except branch's update without its error argument.
FailedPatchNoError(error_msg, ts) ==
    [NoPatch EXCEPT !.status = Some(FAILED),
                    !.completed_at = Some(ts)]

FailedPatch(error_msg, ts) ==
    [NoPatch EXCEPT !.status = Some(FAILED),
                    !.completed_at = Some(ts),
                    !.error = Some(error_msg)]

\* A worker that leaves start() after its first task.
WorkerReturnsStops(w) ==
    [workers EXCEPT ![w].pc = "stopped", ![w].task = None, ![w].outcome = None]

\* _execute_evaluation and _process_next_task return without an exception.
WorkerReturns(w) ==
    [workers EXCEPT ![w].pc = "loop", ![w].task = None, ![w].outcome = None]

\* asyncio.run(self.evaluator.eval(...)) returns an EvalResult.
PipelineReturns(w) ==
    /\ workers[w].pc = "eval"
    /\ \E result \in EvalResults :
          workers' = [workers EXCEPT ![w].pc = "completing", ![w].outcome = Some(result)]
    /\ UNCHANGED <<documents, eval_tasks, files, clock, uploads, creates, claimed, resp, patches>>

\* asyncio.run(self.evaluator.eval(...)) raises an Exception.
PipelineRaises(w) ==
    /\ workers[w].pc = "eval"
    /\ \E error_msg \in PipelineErrors :
          workers' = [workers EXCEPT ![w].pc = "failing", ![w].outcome = Some(error_msg)]
    /\ UNCHANGED <<documents, eval_tasks, files, clock, uploads, creates, claimed, resp, patches>>

\* update_task_status(task.id, status=COMPLETED, progress=100, ...) commits.
CompleteCommit(w) ==
    /\ workers[w].pc = "completing"
    /\ eval_tasks' = UpdateTaskStatus(eval_tasks, Get(workers[w].task).id,
                                      CompletedPatch(Get(workers[w].outcome), clock))
    /\ workers' = WorkerReturns(w)
    /\ UNCHANGED <<documents, files, clock, uploads, creates, claimed, resp, patches>>

\* update_task_status(completed, ...) raises inside the try block: the
\* except branch of _execute_evaluation runs with the store's message.
CompleteStoreError(w) ==
    /\ workers[w].pc = "completing"
    /\ workers' = [workers EXCEPT ![w].pc = "failing", ![w].outcome = Some(StoreErrorMsg)]
    /\ UNCHANGED <<documents, eval_tasks, files, clock, uploads, creates, claimed, resp, patches>>

\* update_task_status(task.id, status=FAILED, completed_at, error) commits.
FailCommit(w) ==
    /\ workers[w].pc = "failing"
    /\ eval_tasks' = UpdateTaskStatus(eval_tasks, Get(workers[w].task).id,
                                      FailedPatch(Get(workers[w].outcome), clock))
    /\ workers' = WorkerReturns(w)
    /\ UNCHANGED <<documents, files, clock, uploads, creates, claimed, resp, patches>>

\* update_task_status(failed, ...) raises in the except branch: the error
\* leaves _execute_evaluation and reaches _process_next_task.
FailStoreError(w) ==
    /\ workers[w].pc = "failing"
    /\ workers' = [workers EXCEPT ![w].pc = "log_error"]
    /\ UNCHANGED <<documents, eval_tasks, files, clock, uploads, creates, claimed, resp, patches>>

\* error_msg = f"文档 {task.document_id} 不存在"
NoDocumentError(document_id) == "document " \o ToString(document_id) \o " does not exist"

\* _process_next_task, `if not document`: update_task_status(task.id,
\* status=FAILED, completed_at, error) commits; return.
NoDocumentCommit(w) ==
    /\ workers[w].pc = "no_document"
    /\ eval_tasks' = UpdateTaskStatus(eval_tasks, Get(workers[w].task).id,
            FailedPatch(NoDocumentError(Get(workers[w].task).document_id), clock))
    /\ workers' = WorkerReturns(w)
    /\ UNCHANGED <<documents, files, clock, uploads, creates, claimed, resp, patches>>

\* That update raises: the error is caught at the end of _process_next_task.
NoDocumentStoreError(w) ==
    /\ workers[w].pc = "no_document"
    /\ workers' = [workers EXCEPT ![w].pc = "log_error"]
    /\ UNCHANGED <<documents, eval_tasks, files, clock, uploads, creates, claimed, resp, patches>>

\* The worker process dies (SIGKILL, power loss, out of memory) at any
\* position: no handler and no except or finally branch runs, nothing is
\* written; the position "crashed" is never left.  An UPDATE that has not
\* committed is discarded by the store.
WorkerCrash(w) ==
    /\ workers[w].pc \notin {"stopped", "crashed"}
    /\ workers' = [workers EXCEPT ![w].pc = "crashed"]
    /\ UNCHANGED <<documents, eval_tasks, files, clock, uploads, creates, claimed, resp, patches>>

WorkerStep(w, skew) ==
    \/ LoopEnter(w)
    \/ RunPendingNotDue(w)
    \/ ClaimSelectNone(w)
    \/ ClaimSelectRow(w)
    \/ ClaimSelectError(w)
    \/ \E now2 \in clock..(clock + skew) : ClaimCommit(w, now2)
    \/ ClaimStoreError(w)
    \/ LogError(w)
    \/ PipelineReturns(w)
    \/ PipelineRaises(w)
    \/ CompleteCommit(w)
    \/ CompleteStoreError(w)
    \/ FailCommit(w)
    \/ FailStoreError(w)

(***************************************************************************)
(* The task-lifecycle specification: one ingested document, clients that   *)
(* create tasks for the whole document, and the workers (no signals).      *)
(***************************************************************************)
SeedPages == 2

SeedDocuments ==
    << NewDocumentRow(1, "a.pdf", <<"uploads", "a.pdf", <<"md5", 1>>>>, 101, SeedPages,
                      <<"md5", 1>>, 0) >>

NoUpload == [pc |-> "idle"]

InitStore ==
    /\ documents = SeedDocuments
    /\ eval_tasks = <<>>
    /\ files = {[path |-> SeedDocuments[1].file_path, content |-> 1]}
    /\ clock = 0
    /\ workers = [w \in Workers |-> NewWorker]
    /\ uploads = [u \in Uploaders |-> NoUpload]
    /\ creates = {}
    /\ claimed = <<>>
    /\ resp = NoResp
    /\ patches = 0

CreateWholeDocument ==
    /\ Len(eval_tasks) < MaxTasks
    /\ \E d \in DocIds : ApiCreateTask(d, None, None, TRUE)

TickStep == clock < MaxClock /\ Tick

Next ==
    \/ CreateWholeDocument
    \/ TickStep
    \/ \E w \in Workers : WorkerStep(w, 0)

Spec == InitStore /\ [][Next]_vars

(***************************************************************************)
(* The shutdown specification: one worker that may receive SIGINT or       *)
(* SIGTERM at any position, and clients that create tasks.                 *)
(***************************************************************************)
NextSignal ==
    \/ CreateWholeDocument
    \/ SignalHandler(1)
    \/ LoopExit(1)
    \/ WorkerStep(1, 0)

SpecSignal == InitStore /\ [][NextSignal]_vars

(***************************************************************************)
(* The crash specification: the workers of Spec, each of which may die at  *)
(* any position.                                                           *)
(***************************************************************************)
NextCrash ==
    \/ CreateWholeDocument
    \/ \E w \in Workers : WorkerCrash(w)
    \/ \E w \in Workers : WorkerStep(w, 0)

SpecCrash == InitStore /\ [][NextCrash]_vars

(***************************************************************************)
(* The progress specification: no store call fails and every pipeline call *)
(* returns or raises.  Worker 1 runs on for ever; worker 2 runs on unless  *)
(* it is killed.  A running process executes its next statement (weak      *)
(* fairness of WorkerRun), and the scheduled job, due every check_interval *)
(* seconds, is run again and again, so a SELECT that finds a pending row   *)
(* infinitely often is eventually made (strong fairness of ClaimSelectRow).*)
(***************************************************************************)
WorkerRun(w) ==
    \/ LoopEnter(w)
    \/ RunPendingNotDue(w)
    \/ ClaimSelectNone(w)
    \/ ClaimSelectRow(w)
    \/ ClaimCommit(w, clock)
    \/ PipelineReturns(w)
    \/ PipelineRaises(w)
    \/ CompleteCommit(w)
    \/ FailCommit(w)

NextLive ==
    \/ CreateWholeDocument
    \/ WorkerCrash(2)
    \/ \E w \in Workers : WorkerRun(w)

SpecLive ==
    /\ InitStore
    /\ [][NextLive]_vars
    /\ \A w \in Workers : WF_vars(WorkerRun(w)) /\ SF_vars(ClaimSelectRow(w))

\* The same with the worker's loop making progress: the error handler and
\* the loop test are executed, and the scheduled job, due again and again
\* (every check_interval seconds), eventually gets its SELECT through.
SpecSignalFair ==
    /\ SpecSignal
    /\ WF_vars(LogError(1))
    /\ WF_vars(LoopEnter(1))
    /\ SF_vars(ClaimSelectRow(1))

\* The shutdown specification with a worker process that keeps running:
\* whatever statement it is at (a store call, the pipeline call, the loop
\* test, time.sleep(1)) returns or raises, and the next one is executed.
SpecStop ==
    /\ SpecSignal
    /\ WF_vars(LoopExit(1) \/ WorkerStep(1, 0))

(***************************************************************************)
(* The inconsistent-store specification: the database file holds a pending *)
(* task whose document_id names no documents row (the connections never    *)
(* enable foreign keys, so SQLite accepts and keeps such a row); clients   *)
(* create further tasks for the existing document; one worker.             *)
(***************************************************************************)
OrphanTasks == 3
OrphanDocument == 2

InitOrphan ==
    /\ documents = SeedDocuments
    /\ eval_tasks = << NewTaskRow(1, OrphanDocument, None, None,
                                  DefaultLlmUri, DefaultNumTestCases, 0) >>
    /\ files = {[path |-> SeedDocuments[1].file_path, content |-> 1]}
    /\ clock = 0
    /\ workers = [w \in Workers |-> NewWorker]
    /\ uploads = [u \in Uploaders |-> NoUpload]
    /\ creates = {}
    /\ claimed = <<>>
    /\ resp = NoResp
    /\ patches = 0

OrphanCreate ==
    /\ Len(eval_tasks) < OrphanTasks
    /\ \E d \in DocIds : ApiCreateTask(d, None, None, TRUE)

NextOrphan ==
    \/ OrphanCreate
    \/ TickStep
    \/ WorkerStep(1, 0)
    \/ NoDocumentCommit(1)
    \/ NoDocumentStoreError(1)

SpecOrphan == InitOrphan /\ [][NextOrphan]_vars

(***************************************************************************)
(* The sequential-queue specification: one worker alone, a longer backlog  *)
(* and a longer clock, so that FifoTasks tasks with distinct created_at     *)
(* exist and are claimed one after the other.                              *)
(***************************************************************************)
FifoCreate ==
    /\ Len(eval_tasks) < FifoTasks
    /\ \E d \in DocIds : ApiCreateTask(d, None, None, TRUE)

FifoTick == clock < FifoClock /\ Tick

NextFifo ==
    \/ FifoCreate
    \/ FifoTick
    \/ WorkerStep(1, 1)

SpecFifo == InitStore /\ [][NextFifo]_vars

(***************************************************************************)
(* The lifecycle with a client that patches tasks through the API.         *)
(***************************************************************************)
ClientTime == 0

PatchRequests ==
    { NoRequest,
      [NoRequest EXCEPT !.status = Some(RUNNING),
                        !.started_at = Some(IsoFormat(ClientTime))],
      [NoRequest EXCEPT !.status = Some(PENDING)],
      [NoRequest EXCEPT !.status = Some(COMPLETED),
                        !.completed_at = Some(IsoFormat(ClientTime)),
                        !.avg_score = Some(0),
                        !.metrics_summary = Some("")],
      [NoRequest EXCEPT !.error = Some("client note")],
      [NoRequest EXCEPT !.status = Some("bogus")] }

PatchStep ==
    /\ patches < MaxPatches
    /\ \E task_id \in 1..(Len(eval_tasks) + 1) : \E req \in PatchRequests :
        ApiUpdateTask(task_id, req)

NextPatch ==
    \/ CreateWholeDocument
    \/ PatchStep
    \/ WorkerStep(1, 0)

(***************************************************************************)
(* The queue-inspection specification: a client lists the pending queue    *)
(* with every limit up to MaxLimit while tasks are created, time passes    *)
(* and one worker serves the queue.                                        *)
(***************************************************************************)
ListTasks == 3
MaxLimit == 2

ListCreate ==
    /\ Len(eval_tasks) < ListTasks
    /\ \E d \in DocIds : ApiCreateTask(d, None, None, TRUE)

ListStep == \E limit \in 1..MaxLimit : ListPendingTasks(limit)

NextList ==
    \/ ListCreate
    \/ TickStep
    \/ ListStep
    \/ WorkerStep(1, 0)

SpecList == InitStore /\ [][NextList]_vars

SpecPatch == InitStore /\ [][NextPatch]_vars

(***************************************************************************)
(* The status-validation specification: clients send PATCH and list        *)
(* requests whose status is a member's value, an unknown word or the empty *)
(* string, beside task creation and one worker.                            *)
(***************************************************************************)
StatusValues == {FAILED, "bogus", ""}

StatusRequests ==
    {[NoRequest EXCEPT !.status = Some(v)] : v \in StatusValues}
    \cup {[NoRequest EXCEPT !.status = Some(""), !.error = Some("client note")]}

StatusPatchStep ==
    /\ patches < MaxPatches
    /\ \E task_id \in TaskIds : \E req \in StatusRequests : ApiUpdateTask(task_id, req)

StatusListStep == \E v \in StatusValues : ApiListTasks(None, Some(v), MaxLimit)

NextStatus ==
    \/ CreateWholeDocument
    \/ StatusPatchStep
    \/ StatusListStep
    \/ WorkerStep(1, 0)

SpecStatus == InitStore /\ [][NextStatus]_vars

(***************************************************************************)
(* The lifecycle with a client that patches the timestamps of tasks: each  *)
(* request carries started_at or completed_at, set to the client's current *)
(* time, and no status.                                                    *)
(***************************************************************************)
StampRequests(now) ==
    { [NoRequest EXCEPT !.started_at = Some(IsoFormat(now))],
      [NoRequest EXCEPT !.completed_at = Some(IsoFormat(now))] }

StampStep ==
    /\ patches < MaxPatches
    /\ \E task_id \in TaskIds : \E req \in StampRequests(clock) : ApiUpdateTask(task_id, req)

NextStamp ==
    \/ CreateWholeDocument
    \/ StampStep
    \/ TickStep
    \/ WorkerStep(1, 0)

SpecStamp == InitStore /\ [][NextStamp]_vars

(***************************************************************************)
(* The lifecycle with a caller of update_task_progress (the store function *)
(* meant for progress reports of a running evaluation): any task, any of   *)
(* the ProgressInputs, a bounded number of calls (counted in `patches`).   *)
(***************************************************************************)
ProgressInputs == {0, 50, 100, 101}

\* update_task_progress: update_task_status(task_id, progress=progress)
UpdateTaskProgress(tasks, task_id, progress) ==
    UpdateTaskStatus(tasks, task_id, [NoPatch EXCEPT !.progress = Some(progress)])

ProgressStep ==
    /\ patches < MaxPatches
    /\ \E task_id \in TaskIds : \E progress \in ProgressInputs :
          eval_tasks' = UpdateTaskProgress(eval_tasks, task_id, progress)
    /\ patches' = patches + 1
    /\ UNCHANGED <<documents, files, clock, workers, uploads, creates, claimed, resp>>

NextProgress ==
    \/ CreateWholeDocument
    \/ ProgressStep
    \/ WorkerStep(1, 0)

SpecProgress == InitStore /\ [][NextProgress]_vars

(***************************************************************************)
(* The specification of every writer of eval_tasks together: creation,     *)
(* PATCH requests, update_task_progress calls and one worker.              *)
(***************************************************************************)
NextUpdate ==
    \/ CreateWholeDocument
    \/ PatchStep
    \/ ProgressStep
    \/ WorkerStep(1, 0)

SpecUpdate == InitStore /\ [][NextUpdate]_vars

(***************************************************************************)
(* The task-creation specification: clients call POST /tasks/create with   *)
(* every combination of page bounds around the document's page count and   *)
(* with known and unknown document ids; the eval_count increment is a      *)
(* step of its own.                                                        *)
(***************************************************************************)
CreateMaxTasks == 2

PageInputs == {None} \cup {Some(n) : n \in (0 - 1)..(SeedPages + 1)}

\* Two ingested documents, of SeedPages and SeedPages + 1 pages.
CreateDocuments ==
    SeedDocuments \o
    << NewDocumentRow(2, "b.pdf", <<"uploads", "b.pdf", <<"md5", 2>>>>, 102, SeedPages + 1,
                      <<"md5", 2>>, 0) >>

InitCreate ==
    /\ documents = CreateDocuments
    /\ eval_tasks = <<>>
    /\ files = {[path |-> CreateDocuments[d].file_path, content |-> d] : d \in 1..2}
    /\ clock = 0
    /\ workers = [w \in Workers |-> NewWorker]
    /\ uploads = [u \in Uploaders |-> NoUpload]
    /\ creates = {}
    /\ claimed = <<>>
    /\ resp = NoResp
    /\ patches = 0

CreateStep ==
    /\ Len(eval_tasks) < CreateMaxTasks
    /\ \E d \in 1..(Len(documents) + 1) : \E sp \in PageInputs : \E ep \in PageInputs :
          ApiCreateTask(d, sp, ep, FALSE)

IncrementStep == \E call \in creates : IncrementEvalCount(call)

IncrementErrorStep == \E call \in creates : IncrementStoreError(call)

NextCreate ==
    \/ CreateStep
    \/ IncrementStep
    \/ IncrementErrorStep

SpecCreate == InitCreate /\ [][NextCreate]_vars

(***************************************************************************)
(* api/routers/documents.py: create_document (POST /documents).            *)
(* An uploader is an API server process handling one upload.  A content is *)
(* a number standing for the bytes of an uploaded file; the model's        *)
(* contents have pairwise distinct digests.                                *)
(***************************************************************************)
Contents == {1, 2, 3}
Filenames == {"a.pdf", "b.pdf"}

\* calculate_file_hash: hashlib.md5(file_content).hexdigest()
CalculateFileHash(content) == <<"md5", content>>

\* file_size = len(file_content)
FileSize(content) == 100 + content

\* get_pdf_page_count: len(PdfReader(path).pages), or ValueError (None here)
\* when the file cannot be read as a PDF.
GetPdfPageCount(content) ==
    CASE content = 1 -> Some(2)
      [] content = 2 -> Some(3)
      [] OTHER -> None

\* upload_dir / f"{stem}_{file_hash[:8]}{ext}"
SafePath(filename, file_hash) == <<"uploads", filename, file_hash>>

\* A lookup that inspects the newest row only.
GetDocumentByHashNewest(docs, file_hash) ==
    IF Len(docs) > 0 /\ docs[Len(docs)].file_hash = file_hash
    THEN Some(docs[Len(docs)])
    ELSE None

\* get_document_by_hash: the row with that file_hash, or None.
GetDocumentByHash(docs, file_hash) ==
    IF \E d \in 1..Len(docs) : docs[d].file_hash = file_hash
    THEN Some(docs[CHOOSE d \in 1..Len(docs) : docs[d].file_hash = file_hash])
    ELSE None

\* The UNIQUE constraints of the documents table (file_path, file_hash):
\* TRUE when the INSERT raises sqlite3.IntegrityError.
IntegrityError(docs, file_path, file_hash) ==
    \E d \in 1..Len(docs) : docs[d].file_path = file_path \/ docs[d].file_hash = file_hash

\* The stored files: a set of [path, content], one entry per path.
FileWrite(fs, path, content) ==
    {f \in fs : f.path # path} \cup {[path |-> path, content |-> content]}

\* A cleanup that leaves the file where it is.
FileUnlinkKeeps(fs, path) == fs

FileUnlink(fs, path) == {f \in fs : f.path # path}

FileExists(fs, path) == \E f \in fs : f.path = path

FileContent(fs, path) == (CHOOSE f \in fs : f.path = path).content

\* get_pdf_page_count(file_path): PdfReader raises on a missing file as on
\* an unreadable one, and both become ValueError.
PageCountOfFile(fs, path) ==
    IF FileExists(fs, path) THEN GetPdfPageCount(FileContent(fs, path)) ELSE None

\* Steps 3 and 4: hash the content and look the hash up; an existing
\* document is returned as it is.
PutLookup(u, content, filename) ==
    /\ uploads[u].pc = "idle"
    /\ LET file_hash == CalculateFileHash(content)
           existing_doc == GetDocumentByHash(documents, file_hash)
       IN  IF existing_doc # None
           THEN /\ resp' = [op |-> "create_document", code |-> 200,
                            id |-> Get(existing_doc).id, msg |-> "exists"]
                /\ UNCHANGED uploads
           ELSE /\ uploads' = [uploads EXCEPT ![u] =
                        [pc |-> "write", content |-> content, filename |-> filename,
                         file_hash |-> file_hash,
                         file_path |-> SafePath(filename, file_hash)]]
                /\ UNCHANGED resp
    /\ UNCHANGED <<documents, eval_tasks, files, clock, workers, creates, claimed, patches>>

\* Step 5: open(file_path, "wb").write(file_content)
PutWriteFile(u) ==
    /\ uploads[u].pc = "write"
    /\ files' = FileWrite(files, uploads[u].file_path, uploads[u].content)
    /\ uploads' = [uploads EXCEPT ![u].pc = "count"]
    /\ UNCHANGED <<documents, eval_tasks, clock, workers, creates, claimed, resp, patches>>

\* Step 6: the page count of the file as it is now on disk; on ValueError
\* the file is unlinked and the upload is rejected with status 400.  When
\* the file is gone (another upload of the same path has unlinked it),
\* unlink() raises FileNotFoundError, which nothing catches: status 500.
PutPageCount(u) ==
    /\ uploads[u].pc = "count"
    /\ LET total_pages == PageCountOfFile(files, uploads[u].file_path) IN
       IF total_pages = None
       THEN /\ files' = FileUnlink(files, uploads[u].file_path)
            /\ uploads' = [uploads EXCEPT ![u] = NoUpload]
            /\ resp' = IF FileExists(files, uploads[u].file_path)
                       THEN [op |-> "create_document", code |-> 400, id |-> 0,
                             msg |-> "unreadable"]
                       ELSE [op |-> "create_document", code |-> 500, id |-> 0,
                             msg |-> "FileNotFoundError"]
       ELSE /\ uploads' = [uploads EXCEPT ![u] =
                    [pc |-> "insert", content |-> @.content, filename |-> @.filename,
                     file_hash |-> @.file_hash, file_path |-> @.file_path,
                     total_pages |-> Get(total_pages)]]
            /\ UNCHANGED <<files, resp>>
    /\ UNCHANGED <<documents, eval_tasks, clock, workers, creates, claimed, patches>>

\* Step 7: database.create_document, the INSERT.  A violated UNIQUE
\* constraint raises IntegrityError, which the handler does not catch: the
\* request ends with status 500.
PutInsert(u) ==
    /\ uploads[u].pc = "insert"
    /\ IF IntegrityError(documents, uploads[u].file_path, uploads[u].file_hash)
       THEN /\ resp' = [op |-> "create_document", code |-> 500, id |-> 0, msg |-> "IntegrityError"]
            /\ UNCHANGED documents
       ELSE /\ documents' = Append(documents,
                    NewDocumentRow(Len(documents) + 1, uploads[u].filename,
                                   uploads[u].file_path, FileSize(uploads[u].content),
                                   uploads[u].total_pages,
                                   uploads[u].file_hash, clock))
            /\ resp' = [op |-> "create_document", code |-> 200,
                        id |-> Len(documents) + 1, msg |-> "uploaded"]
    /\ uploads' = [uploads EXCEPT ![u] = NoUpload]
    /\ UNCHANGED <<eval_tasks, files, clock, workers, creates, claimed, patches>>

InitEmpty ==
    /\ documents = <<>>
    /\ eval_tasks = <<>>
    /\ files = {}
    /\ clock = 0
    /\ workers = [w \in Workers |-> NewWorker]
    /\ uploads = [u \in Uploaders |-> NoUpload]
    /\ creates = {}
    /\ claimed = <<>>
    /\ resp = NoResp
    /\ patches = 0

NextDocs ==
    \E u \in Uploaders :
        \/ \E content \in Contents : \E filename \in Filenames : PutLookup(u, content, filename)
        \/ PutWriteFile(u)
        \/ PutPageCount(u)
        \/ PutInsert(u)

SpecDocs == InitEmpty /\ [][NextDocs]_vars

(***************************************************************************)
(*                             Properties                                  *)
(***************************************************************************)
CreatedAt(t) == FromIsoFormat(eval_tasks[t].created_at)

\* The step is the return of claim_next_pending_task with task t.
ClaimReturns(t) == claimed' = Append(claimed, t)

\* C1: over the whole execution no task id is returned by more than one
\* call of claim_next_pending_task, whatever the interleaving of the
\* workers' SELECT and UPDATE steps (with one pending task and two callers,
\* one call gets the task and the other gets None).
C1_AtMostOneClaim ==
    \A i, j \in 1..Len(claimed) : i # j => claimed[i] # claimed[j]

\* C2: with a single caller, whenever claim_next_pending_task returns task
\* t, no other task that is pending at that moment has a strictly earlier
\* created_at; so tasks created at t1 < t2 < t3 are returned in that order.
C2_FifoOrder ==
    [][\A t \in TaskIds :
          ClaimReturns(t) =>
              \A u \in PendingIds(eval_tasks) \ {t} : CreatedAt(u) >= CreatedAt(t)]_vars

\* Three tasks created at three distinct instants, all of them in the
\* backlog before the first claim, have been returned in creation order.
C2_Witness ==
    /\ Len(eval_tasks) = 3
    /\ CreatedAt(1) < CreatedAt(2)
    /\ CreatedAt(2) < CreatedAt(3)
    /\ claimed = <<1, 2, 3>>
    /\ FromIsoFormat(Get(eval_tasks[1].started_at)) >= CreatedAt(3)

\* A step that executes an update call on the task table: the PATCH handler
\* or one of the worker's finalizing update_task_status calls.
UpdateCall ==
    \/ \E task_id \in 1..(Len(eval_tasks) + 1) : \E req \in PatchRequests :
          ApiUpdateTask(task_id, req)
    \/ \E w \in Workers : CompleteCommit(w) \/ FailCommit(w)

\* C3: once a task is completed or failed, every later update call leaves
\* its stored row identical (the call is rejected or ignored).
C3_TerminalImmutable ==
    [][UpdateCall =>
          \A t \in TaskIds :
              eval_tasks[t].status \in Terminal => eval_tasks'[t] = eval_tasks[t]]_vars

\* C4: the status of every task follows pending -> running -> (completed |
\* failed): a new row is pending, running is entered only from pending and
\* only by the step in which claim_next_pending_task returns the task, a
\* terminal status is entered only from running, and nothing else changes
\* a status; a task is returned by a claim only while it is pending.
C4_Lifecycle ==
    [][/\ \A t \in TaskIds :
            LET a == eval_tasks[t].status
                b == eval_tasks'[t].status
            IN  /\ \/ a = b
                   \/ a = PENDING /\ b = RUNNING /\ ClaimReturns(t)
                   \/ a = RUNNING /\ b \in Terminal
                /\ ClaimReturns(t) => a = PENDING
       /\ \A t \in (1..Len(eval_tasks')) \ TaskIds : eval_tasks'[t].status = PENDING]_vars

\* C5: a claim_next_pending_task call that fails between its SELECT and its
\* commit leaves every row as it was and hands the caller an error, not a
\* task; its SELECT changes no row either; and no row is ever left running
\* without a started_at.
C5_ClaimRollsBack ==
    /\ [](\A t \in TaskIds :
            eval_tasks[t].status = RUNNING => eval_tasks[t].started_at # None)
    /\ [][\A w \in Workers :
            /\ (workers[w].pc = "claim_update" /\ workers'[w].pc = "log_error")
                  => /\ eval_tasks' = eval_tasks
                     /\ documents' = documents
                     /\ claimed' = claimed
                     /\ workers'[w].task = None
            /\ (workers[w].pc \in {"start", "run_pending"} /\ workers'[w] # workers[w])
                  => /\ eval_tasks' = eval_tasks
                     /\ documents' = documents]_vars

\* A claim has just failed: the worker is in the error handler without a
\* task, and the row it had selected is still pending and unclaimed.
C5_Witness ==
    \E w \in Workers :
        /\ workers[w].pc = "log_error"
        /\ workers[w].task = None
        /\ Len(eval_tasks) >= 1
        /\ eval_tasks[1].status = PENDING
        /\ eval_tasks[1].started_at = None
        /\ claimed = <<>>

\* The fields a patch supplies as non-null.
SuppliedFields(patch) == {f \in DOMAIN patch : patch[f] # None}

\* The effect an update call with keyword arguments `patch` must have on
\* task `id`: the supplied columns read back as supplied, all else as before.
SparseEffect(id, patch) ==
    /\ Len(eval_tasks') = Len(eval_tasks)
    /\ documents' = documents
    /\ \A t \in TaskIds \ {id} : eval_tasks'[t] = eval_tasks[t]
    /\ id \in TaskIds =>
          LET after == RowToTask(eval_tasks'[id]) IN
          /\ \A f \in (DOMAIN eval_tasks[id]) \ SuppliedFields(patch) :
                eval_tasks'[id][f] = eval_tasks[id][f]
          /\ \A f \in SuppliedFields(patch) :
                IF f \in {"status", "progress"}
                THEN after[f] = Get(patch[f])
                ELSE after[f] = patch[f]

\* C9: an update changes exactly the columns supplied as non-null, to the
\* supplied values, and leaves every other column of the row, every other
\* task and every document unchanged; with no non-null column it changes
\* nothing.  Checked of the PATCH handler's call and of the worker's calls.
C9_SparsePatch ==
    [][/\ \A task_id \in 1..(Len(eval_tasks) + 1) : \A req \in PatchRequests :
            (ApiUpdateTask(task_id, req) /\ UpdateTaskCode(eval_tasks, task_id, req) = 200)
                => /\ SparseEffect(task_id, RequestPatch(req))
                   /\ SuppliedFields(RequestPatch(req)) = {} => eval_tasks' = eval_tasks
       /\ \A w \in Workers :
            /\ CompleteCommit(w) =>
                  SparseEffect(Get(workers[w].task).id,
                               CompletedPatch(Get(workers[w].outcome), clock))
            /\ FailCommit(w) =>
                  SparseEffect(Get(workers[w].task).id,
                               FailedPatch(Get(workers[w].outcome), clock))]_vars

\* A failed task has been patched with an error text only: its status,
\* timestamps and the other task are as before, and a worker's sparse
\* update has completed the other task.
C9_Witness ==
    /\ Len(eval_tasks) = 2
    /\ patches >= 1
    /\ resp = [op |-> "update_task", code |-> 200, id |-> 1]
    /\ eval_tasks[1].error = Some("client note")
    /\ eval_tasks[1].status = RUNNING
    /\ eval_tasks[1].started_at # None
    /\ eval_tasks[2].status = COMPLETED
    /\ eval_tasks[2].progress = 100

ValidRange(sp, ep, total_pages) ==
    1 <= Get(sp) /\ Get(sp) <= Get(ep) /\ Get(ep) <= total_pages

\* C6: a create with both page bounds supplied succeeds if and only if
\* 1 <= start_page <= end_page <= total_pages, for every integer value of
\* the bounds; a rejected create inserts nothing; so every stored task with
\* both bounds set satisfies the inequality.
C6_PageRange ==
    /\ [](\A t \in TaskIds :
            (eval_tasks[t].start_page # None /\ eval_tasks[t].end_page # None)
                => ValidRange(eval_tasks[t].start_page, eval_tasks[t].end_page,
                              documents[eval_tasks[t].document_id].total_pages))
    /\ [][\A d \in DocIds : \A sp \in PageInputs \ {None} : \A ep \in PageInputs \ {None} :
            ApiCreateTask(d, sp, ep, FALSE)
                => /\ (Len(eval_tasks') = Len(eval_tasks) + 1)
                          <=> ValidRange(sp, ep, documents[d].total_pages)
                   /\ (Len(eval_tasks') # Len(eval_tasks) + 1)
                          => (resp'.code = 400 /\ eval_tasks' = eval_tasks)]_vars

\* C7: a put whose content has the digest of an existing document returns
\* that document's id with the "already exists" outcome, whatever the
\* filename, and writes no file and no row: the documents table (row count
\* and every eval_count) and the stored files are unchanged.
C7_DedupIdempotent ==
    [][\A u \in Uploaders : \A content \in Contents : \A filename \in Filenames :
          (PutLookup(u, content, filename)
              /\ \E d \in DocIds : documents[d].file_hash = CalculateFileHash(content))
          => /\ resp'.op = "create_document" /\ resp'.code = 200 /\ resp'.msg = "exists"
             /\ resp'.id \in DocIds
             /\ documents[resp'.id].file_hash = CalculateFileHash(content)
             /\ documents' = documents
             /\ files' = files
             /\ uploads' = uploads]_vars

\* A second put of the first document's content has been answered "already
\* exists" with the first document's id; there is still one row, one file.
C7_Witness ==
    /\ Len(documents) = 1
    /\ resp = [op |-> "create_document", code |-> 200, id |-> 1, msg |-> "exists"]
    /\ Cardinality(files) = 1
    /\ \A u \in Uploaders : uploads[u].pc = "idle"

\* C8: no two rows of documents have the same file_hash, and no put fails
\* on the INSERT: a put of content that is already stored, also one that
\* raced with another put of the same bytes, is answered with the existing
\* row's id.
C8_UniqueAndResolved ==
    /\ \A d, e \in DocIds : d # e => documents[d].file_hash # documents[e].file_hash
    /\ resp.op = "create_document" => resp.msg # "IntegrityError"

ClaimStarts(w) ==
    \/ workers[w].pc = "start" /\ workers'[w].pc # "start"
    \/ workers[w].pc = "run_pending" /\ workers'[w].pc \in {"claim_update", "log_error"}

\* C12: a worker that has received a termination signal never starts a new
\* claim_next_pending_task call, wherever the signal reached it.
C12_NoClaimAfterSignal ==
    [][\A w \in Workers : workers[w].should_stop => ~ClaimStarts(w)]_vars

C15_ClaimErrorRetried ==
    /\ [][\A w \in Workers :
             /\ (workers[w].pc \in {"start", "run_pending", "claim_update"}
                    /\ workers'[w].pc = "log_error")
                   => /\ eval_tasks' = eval_tasks
                      /\ documents' = documents
                      /\ claimed' = claimed
                      /\ workers'[w].task = None
             /\ (workers[w].pc = "log_error" /\ workers'[w].pc # "log_error")
                   => /\ workers'[w].pc = "loop"
                      /\ workers'[w].should_stop = workers[w].should_stop
                      /\ eval_tasks' = eval_tasks
             /\ (workers[w].pc # "stopped" /\ workers'[w].pc = "stopped")
                   => workers[w].should_stop]_vars
    /\ (workers[1].pc = "log_error" /\ PendingIds(eval_tasks) # {})
          ~> (workers[1].pc = "claim_update" \/ workers[1].should_stop)

\* A claim of the worker failed on a store error and was logged; a later
\* poll of the same worker, which was never signalled, has claimed task 1.
C15_Witness ==
    /\ workers[1].logged = Some(StoreErrorMsg)
    /\ workers[1].pc = "eval"
    /\ ~workers[1].should_stop
    /\ claimed = <<1>>
    /\ eval_tasks[1].status = RUNNING

C16_ReturnsCommittedRow ==
    [][\A w \in Workers :
          (workers[w].pc = "claim_update" /\ workers'[w].task # None)
          => Get(workers'[w].task) = RowToTask(eval_tasks'[Get(workers'[w].task).id])]_vars

\* C17: a claim_next_pending_task call made while no task is pending, and
\* not failing on the store, returns None to the worker (which is back in
\* its loop without a task) and changes no task row and no document row.
C17_EmptyQueueReturnsNone ==
    [][\A w \in Workers :
          (/\ workers[w].pc \in {"start", "run_pending"}
           /\ \A t \in TaskIds : eval_tasks[t].status # PENDING
           /\ workers'[w].pc # workers[w].pc
           /\ workers'[w].pc # "log_error")
          => /\ workers'[w].pc = "loop"
             /\ workers'[w].task = None
             /\ workers'[w].row = None
             /\ eval_tasks' = eval_tasks
             /\ documents' = documents
             /\ claimed' = claimed]_vars

\* Worker 2 is in its loop without ever having logged an error or been
\* handed a task, while the only task is running at worker 1: its start-up
\* claim found no pending row and returned None.
C17_Witness ==
    /\ Len(eval_tasks) = 1
    /\ eval_tasks[1].status = RUNNING
    /\ claimed = <<1>>
    /\ workers[1].pc = "eval"
    /\ workers[2].pc = "loop"
    /\ workers[2].logged = None
    /\ workers[2].task = None

C19_CreateInsertsPending ==
    [][/\ (Len(eval_tasks') # Len(eval_tasks))
            => LET new == eval_tasks'[Len(eval_tasks) + 1] IN
               /\ Len(eval_tasks') = Len(eval_tasks) + 1
               /\ new.id = Len(eval_tasks) + 1
               /\ new.status = PENDING
               /\ new.progress = 0
               /\ \A f \in {"started_at", "completed_at", "result_path", "dataset_path",
                             "avg_score", "metrics_summary", "error"} : new[f] = None
               /\ \A t \in TaskIds : eval_tasks'[t] = eval_tasks[t]
               /\ new.document_id \in DocIds
               /\ documents' = documents
               /\ creates' = creates \cup {CreateCall(new.id, new.document_id)}
               /\ creates' # creates
       /\ (documents' # documents)
            => /\ eval_tasks' = eval_tasks
               /\ \E call \in creates :
                     /\ creates' = creates \ {call}
                     /\ eval_tasks[call.task_id].document_id = call.document_id
                     /\ documents' = [documents EXCEPT ![call.document_id].eval_count = @ + 1]
                     /\ resp' = [op |-> "create_task", code |-> 200, id |-> call.task_id]]_vars

\* Two creates for document 2 have completed: two pending rows, document
\* 2 counts two evaluations and document 1 none.
C19_Witness ==
    /\ Len(eval_tasks) = 2
    /\ \A t \in TaskIds : eval_tasks[t].status = PENDING /\ eval_tasks[t].document_id = 2
    /\ creates = {}
    /\ documents[2].eval_count = 2
    /\ documents[1].eval_count = 0

\* C20: a create whose document_id matches no document is answered 404
\* (DocumentNotFound), whatever the page bounds; no task row is inserted
\* and no eval_count changes or is owed.
C20_UnknownDocumentRejected ==
    [][\A d \in (1..(Len(documents) + 1)) \ DocIds :
          \A start_page \in PageInputs : \A end_page \in PageInputs :
              ApiCreateTask(d, start_page, end_page, FALSE)
              => /\ resp' = [op |-> "create_task", code |-> 404, id |-> 0]
                 /\ eval_tasks' = eval_tasks
                 /\ documents' = documents
                 /\ creates' = creates]_vars

\* A create for an unknown document has just been refused after an
\* accepted one: still one task, and the eval_counts as before.
C20_Witness ==
    /\ resp = [op |-> "create_task", code |-> 404, id |-> 0]
    /\ Len(eval_tasks) = 1
    /\ creates = {}
    /\ documents[eval_tasks[1].document_id].eval_count = 1

\* C21: an update (PATCH /tasks/{task_id}) that names a task id with no row
\* is answered 404 (TaskNotFound), whatever the request body, and changes
\* no task row and no document row; the store's UPDATE ... WHERE id = ? on
\* such an id changes no row either.
C21_UnknownTaskRejected ==
    [][\A task_id \in (1..(Len(eval_tasks) + 1)) \ TaskIds : \A req \in PatchRequests :
          ApiUpdateTask(task_id, req)
          => /\ resp' = [op |-> "update_task", code |-> 404, id |-> task_id]
             /\ eval_tasks' = eval_tasks
             /\ documents' = documents
             /\ UpdateTaskStatus(eval_tasks, task_id, RequestPatch(req)) = eval_tasks]_vars

\* An update of task 2 has just been refused while task 1, the only task,
\* is running untouched at the worker.
C21_Witness ==
    /\ resp = [op |-> "update_task", code |-> 404, id |-> 2]
    /\ Len(eval_tasks) = 1
    /\ eval_tasks[1].status = RUNNING
    /\ eval_tasks[1].error = None
    /\ workers[1].pc = "eval"

\* The number of task rows whose document_id is d.
TasksOf(d) == Cardinality({t \in TaskIds : eval_tasks[t].document_id = d})

\* C22: for every document, eval_count never decreases; it changes only in
\* a step of a create call, and then by exactly 1 for the document of that
\* call; and whenever no create call is in progress it equals the number
\* of tasks of that document, whatever the interleaving of the creates.
C22_EvalCountMatches ==
    /\ [][\A d \in DocIds : documents'[d].eval_count >= documents[d].eval_count]_vars
    /\ [][(documents' # documents)
            => \E call \in creates :
                  documents' = [documents EXCEPT ![call.document_id].eval_count = @ + 1]]_vars
    /\ [](creates = {} => \A d \in DocIds : documents[d].eval_count = TasksOf(d))

\* C23: when increment_eval_count raises inside a create, the create still
\* succeeds: the caller is answered 200 with the new task's id, and the
\* task is stored pending.
C23_BumpFailureTolerated ==
    [][\A call \in creates :
          IncrementStoreError(call)
          => /\ resp' = [op |-> "create_task", code |-> 200, id |-> call.task_id]
             /\ eval_tasks'[call.task_id].status = PENDING]_vars

\* C24: create is atomic: in no reachable state is a task row visible in
\* eval_tasks while its document's eval_count has not been incremented for
\* it, that is, every document counts at least as many evaluations as it
\* has task rows.
C24_CreateAtomic ==
    \A d \in DocIds : documents[d].eval_count >= TasksOf(d)

\* C25: when the page count cannot be derived from the uploaded content,
\* the step of create_document that finds this out rejects the ingest with
\* an error status and no document id, inserts no documents row, removes
\* the file written for the ingest and ends the upload; and whenever no
\* upload is in progress, no stored file holds unreadable content.
C25_UnreadableRejected ==
    /\ [][\A u \in Uploaders :
            (/\ uploads[u].pc = "count"
             /\ GetPdfPageCount(uploads[u].content) = None
             /\ uploads'[u] # uploads[u])
            => /\ resp'.op = "create_document"
               /\ resp'.code \in {400, 500}
               /\ resp'.id = 0
               /\ documents' = documents
               /\ ~FileExists(files', uploads[u].file_path)
               /\ \A f \in files : f.path # uploads[u].file_path => f \in files'
               /\ uploads'[u] = NoUpload]_vars
    /\ []((\A u \in Uploaders : uploads[u] = NoUpload)
            => \A f \in files : GetPdfPageCount(f.content) # None)

\* An unreadable upload has just been rejected with status 400 after a
\* readable one was ingested: one document, and its file the only one.
C25_Witness ==
    /\ resp = [op |-> "create_document", code |-> 400, id |-> 0, msg |-> "unreadable"]
    /\ \A u \in Uploaders : uploads[u] = NoUpload
    /\ Len(documents) = 1
    /\ files = {[path |-> documents[1].file_path, content |-> 1]}

\* C26: in every reachable state a pending or running task has no
\* result_path, dataset_path, avg_score, metrics_summary or error, and a
\* task has an error only if its status is failed.
C26_ResultFieldsNull ==
    \A t \in TaskIds :
        /\ eval_tasks[t].status \in {PENDING, RUNNING}
              => \A f \in {"result_path", "dataset_path", "avg_score", "metrics_summary",
                            "error"} : eval_tasks[t][f] = None
        /\ eval_tasks[t].error # None => eval_tasks[t].status = FAILED

\* C27: for every task, created_at never changes; started_at changes only
\* in a step that moves the task to running, and only from NULL; the step
\* that moves a task to running writes it; completed_at changes only in a
\* step that moves the task to a terminal status, and only from NULL; the
\* step that moves a task to a terminal status writes it.
C27_TimestampsOnce ==
    [][\A t \in TaskIds :
          LET old == eval_tasks[t]
              new == eval_tasks'[t]
              starts == old.status # RUNNING /\ new.status = RUNNING
              ends == old.status \notin Terminal /\ new.status \in Terminal
          IN  /\ new.created_at = old.created_at
              /\ new.started_at # old.started_at => (starts /\ old.started_at = None)
              /\ starts => new.started_at # None
              /\ new.completed_at # old.completed_at => (ends /\ old.completed_at = None)
              /\ ends => new.completed_at # None]_vars

\* C28: the progress of every task is within 0..100 in every state, and
\* does not decrease in a step before and after which the task is running.
C28_ProgressMonotonic ==
    /\ [][\A t \in TaskIds :
            (eval_tasks[t].status = RUNNING /\ eval_tasks'[t].status = RUNNING)
                => eval_tasks'[t].progress >= eval_tasks[t].progress]_vars
    /\ [](\A t \in TaskIds : eval_tasks[t].progress \in 0..100)

\* Task t is running and was left by a crashed worker: a worker that had
\* claimed it has died before finalizing it.
LeftByCrash(t) ==
    /\ eval_tasks[t].status = RUNNING
    /\ \E w \in Workers :
          /\ workers[w].pc = "crashed"
          /\ workers[w].task # None
          /\ Get(workers[w].task).id = t

\* C29: no step of a worker (a claim included) changes a task that is
\* failed, or that is running and was left by a crashed worker, and no
\* claim returns such a task; so, with no client updating it, a running
\* task left by a crashed worker stays running, unchanged.
C29_NoRetryNoRequeue ==
    [][\A t \in TaskIds :
          (eval_tasks[t].status = FAILED \/ LeftByCrash(t))
          => /\ eval_tasks'[t] = eval_tasks[t]
             /\ ~ClaimReturns(t)]_vars

\* The tasks that the single worker of SpecFifo has claimed and that no
\* update has moved to a terminal status.
ClaimedUnfinalized ==
    {t \in TaskIds : eval_tasks[t].status = RUNNING /\ \E i \in 1..Len(claimed) : claimed[i] = t}

\* C30: the worker has at any moment at most one task that it has claimed
\* and that is not finalized; it starts a claim_next_pending_task call only
\* when it has none; and outside _process_next_task it holds no task object.
C30_OneTaskAtATime ==
    /\ [][ClaimStarts(1) => ClaimedUnfinalized = {}]_vars
    /\ [](Cardinality(ClaimedUnfinalized) <= 1)
    /\ [](workers[1].pc \in {"start", "loop", "run_pending", "claim_update", "stopped"}
            => workers[1].task = None)

\* C31: a listing of the pending queue (GET /tasks/queue/pending) changes
\* no task row, no document row and no worker; every task it returns is
\* pending in the store at that moment; and the rows that the next
\* claim_next_pending_task may return are the same after it as before.
C31_ListPendingReadOnly ==
    [][\A limit \in 1..MaxLimit :
          ListPendingTasks(limit)
          => /\ eval_tasks' = eval_tasks
             /\ documents' = documents
             /\ workers' = workers
             /\ claimed' = claimed
             /\ resp'.total = Len(resp'.tasks)
             /\ \A k \in 1..Len(resp'.tasks) :
                   /\ resp'.tasks[k].status = PENDING
                   /\ resp'.tasks[k].id \in TaskIds
                   /\ eval_tasks[resp'.tasks[k].id].status = PENDING
             /\ SelectNextPending(eval_tasks') = SelectNextPending(eval_tasks)]_vars

\* The queue has just been listed while task 1 is running at the worker
\* and task 2 waits: the listing shows task 2 alone, and both rows are as
\* the claim and the create left them.
C31_Witness ==
    /\ resp.op = "list_pending_tasks"
    /\ Len(eval_tasks) = 2
    /\ eval_tasks[1].status = RUNNING
    /\ eval_tasks[2].status = PENDING
    /\ workers[1].pc = "eval"
    /\ resp.total = 1
    /\ resp.tasks[1].id = 2

\* C39: whenever some task is pending, a listing of the pending queue with
\* any limit >= 1 includes a task that the next claim_next_pending_task
\* may return (the oldest pending task).
C39_ListShowsHead ==
    [][\A limit \in 1..MaxLimit :
          (ListPendingTasks(limit) /\ PendingIds(eval_tasks) # {})
          => \E k \in 1..Len(resp'.tasks) :
                resp'.tasks[k].id \in SelectNextPending(eval_tasks)]_vars

\* C32: a PATCH or a list request whose status is not one of pending,
\* running, completed, failed (the empty string included) is answered
\* with a validation error (400) and changes no task; and the stored
\* status of every task is always one of the four values.
C32_StatusValidated ==
    /\ [][\A v \in StatusValues \ TaskStatus :
            /\ \A task_id \in TaskIds : \A req \in StatusRequests :
                  (req.status = Some(v) /\ ApiUpdateTask(task_id, req))
                  => (resp'.code = 400 /\ eval_tasks' = eval_tasks)
            /\ ApiListTasks(None, Some(v), MaxLimit)
                  => (resp'.code = 400 /\ eval_tasks' = eval_tasks)]_vars
    /\ [](\A t \in TaskIds : eval_tasks[t].status \in TaskStatus)

\* The evaluation configuration of a task.
ConfigFields == {"id", "document_id", "start_page", "end_page", "llm_uri", "num_test_cases"}

\* C33: no step (claim, PATCH, update_task_progress, the worker's
\* finalizing updates) changes the document_id, start_page, end_page,
\* llm_uri or num_test_cases of an existing task.
C33_ConfigImmutable ==
    [][\A t \in TaskIds : \A f \in ConfigFields : eval_tasks'[t][f] = eval_tasks[t][f]]_vars

\* Task 1 has been claimed and completed by the worker, patched by a
\* client and had its progress set afterwards, and still carries the
\* configuration it was created with.
C33_Witness ==
    /\ Len(eval_tasks) >= 1
    /\ eval_tasks[1].status = COMPLETED
    /\ claimed = <<1>>
    /\ eval_tasks[1].error = Some("client note")
    /\ eval_tasks[1].progress = 50
    /\ eval_tasks[1].document_id = 1
    /\ eval_tasks[1].start_page = None
    /\ eval_tasks[1].end_page = None
    /\ eval_tasks[1].llm_uri = DefaultLlmUri
    /\ eval_tasks[1].num_test_cases = DefaultNumTestCases

\* The status of task t, "absent" while the row does not exist.
StatusOf(t) == IF t \in TaskIds THEN eval_tasks[t].status ELSE "absent"

ProcessingWorkers(t) ==
    {w \in Workers : /\ workers[w].task # None
                     /\ Get(workers[w].task).id = t
                     /\ workers[w].pc \in {"no_document", "eval", "completing", "failing",
                                           "log_error"}}

\* C35: every task whose status is running is being processed by exactly
\* one worker, so there are never more running tasks than workers and no
\* running task is without a worker after a finalizing update has failed.
C35_RunningHasOneWorker ==
    /\ \A t \in TaskIds :
          eval_tasks[t].status = RUNNING => Cardinality(ProcessingWorkers(t)) = 1
    /\ Cardinality({t \in TaskIds : eval_tasks[t].status = RUNNING}) <= NumWorkers

\* C36: a task that is running, completed or failed has a started_at, and
\* a task that is completed or failed has a completed_at.
C36_TimestampsPresent ==
    \A t \in TaskIds :
        /\ eval_tasks[t].status \in {RUNNING, COMPLETED, FAILED}
              => eval_tasks[t].started_at # None
        /\ eval_tasks[t].status \in {COMPLETED, FAILED}
              => eval_tasks[t].completed_at # None

\* C37: once a termination signal has been handled, the worker eventually
\* leaves its loop and start() returns; no second signal is involved.
C37_SignalStops ==
    (workers[1].signalled_at # None) ~> (workers[1].pc = "stopped")

\* The signal arrived while the pipeline was running; the task was carried
\* to completion and the worker then stopped.
C37_Witness ==
    /\ workers[1].pc = "stopped"
    /\ workers[1].signalled_at = Some("eval")
    /\ claimed = <<1>>
    /\ eval_tasks[1].status = COMPLETED

\* The columns the claim's UPDATE sets.
ClaimFields == {"status", "started_at", "progress"}

\* C38: a claim_next_pending_task call that returns task t changes only
\* the status, started_at and progress of row t; every other column of
\* row t, every other task row, every document row and every stored file
\* are as before, and no row is added or removed.
C38_ClaimFrame ==
    [][\A t \in TaskIds :
          ClaimReturns(t)
          => /\ DOMAIN eval_tasks' = DOMAIN eval_tasks
             /\ \A u \in TaskIds \ {t} : eval_tasks'[u] = eval_tasks[u]
             /\ \A f \in DOMAIN eval_tasks[t] \ ClaimFields :
                   eval_tasks'[t][f] = eval_tasks[t][f]
             /\ eval_tasks'[t].status = RUNNING
             /\ documents' = documents
             /\ files' = files]_vars

\* Task 1 has been claimed while task 2 was waiting: task 1 is running
\* with its started_at set, task 2 is still pending and untouched.
C38_Witness ==
    /\ Len(eval_tasks) = 2
    /\ claimed = <<1>>
    /\ eval_tasks[1].status = RUNNING
    /\ eval_tasks[1].started_at # None
    /\ eval_tasks[1].document_id = 1
    /\ eval_tasks[2].status = PENDING
    /\ eval_tasks[2].started_at = None

\* C40: while no upload is in progress, every file in the upload directory
\* is the file_path of exactly one documents row.
C40_NoOrphanedFile ==
    (\A u \in Uploaders : uploads[u] = NoUpload)
    => \A f \in files :
          Cardinality({d \in 1..Len(documents) : documents[d].file_path = f.path}) = 1

====
